---- MODULE Spec2Model ----
(***************************************************************************)
(* Model of the Streamlit dashboard src/app2.py (magnifydata/test2).       *)
(*                                                                         *)
(* The script is re-run top to bottom on every user interaction.  One run  *)
(* (a "render pass") is modelled as the sequence of steps                  *)
(*   Rerun -> LoadData -> Sidebar -> FilterAndMetrics -> Chart -> Details  *)
(* each step being a block of consecutive script lines.  `out` is the list *)
(* of Streamlit elements the pass has emitted so far.                      *)
(*                                                                         *)
(* Numbers are exact rationals [k |-> "num", n, d]; a missing value is NaN *)
(* and a CSV cell that does not parse as a number is Str.  The binary      *)
(* rounding of float64 is not modelled.                                    *)
(***************************************************************************)
EXTENDS Integers, Sequences, FiniteSets, TLC

\* ------------------------------------------------------------------ bounds
\* Longest backing table (rows of data.csv) the checks enumerate.
MaxRows == 3
\* Longest backing table of the session specification, where the file on
\* disk may be replaced between passes.
MaxSessionRows == 1
\* Reads of data.csv after which no further read is explored.
MaxReads == 2

\* ------------------------------------------------------------------ values
Num(n, d) == [k |-> "num", n |-> n, d |-> d]
NaN == [k |-> "nan", n |-> 0, d |-> 1]
\* A cell such as "abc": read_csv leaves the column as dtype object.
Str == [k |-> "str", n |-> 0, d |-> 1]

IsNum(x) == x.k = "num"

RECURSIVE GCD(_, _)
GCD(a, b) == IF b = 0 THEN a ELSE GCD(b, a % b)

Norm(n, d) ==
    LET g == GCD(IF n < 0 THEN -n ELSE n, d)
    IN  IF g = 0 THEN Num(0, 1) ELSE Num(n \div g, d \div g)

\* Comparisons with NaN are False, as in IEEE 754 / pandas.
Le(a, b) == IsNum(a) /\ IsNum(b) /\ a.n * b.d <= b.n * a.d
Ge(a, b) == Le(b, a)
Lt(a, b) == IsNum(a) /\ IsNum(b) /\ a.n * b.d < b.n * a.d

Add(a, b) == Norm(a.n * b.d + b.n * a.d, a.d * b.d)

\* ------------------------------------------------------------- pandas Series
RECURSIVE SumNum(_)
SumNum(s) == IF s = <<>> THEN Num(0, 1) ELSE Add(Head(s), SumNum(Tail(s)))

\* Series.mean(): NaNs are skipped; the mean of no value is NaN.
SeriesMean(s) ==
    LET present == SelectSeq(s, IsNum)
        t == SumNum(present)
    IN  IF present = <<>> THEN NaN ELSE Norm(t.n, t.d * Len(present))

\* Series.min() / Series.max(): NaNs are skipped; NaN when nothing is left.
SeriesMin(s) ==
    LET present == {s[i] : i \in {j \in 1..Len(s) : IsNum(s[j])}}
    IN  IF present = {} THEN NaN
        ELSE CHOOSE m \in present : \A x \in present : Le(m, x)

SeriesMax(s) ==
    LET present == {s[i] : i \in {j \in 1..Len(s) : IsNum(s[j])}}
    IN  IF present = {} THEN NaN
        ELSE CHOOSE m \in present : \A x \in present : Le(x, m)

\* Series.fillna(v)
FillNa(s, v) == [i \in 1..Len(s) |-> IF s[i].k = "nan" THEN v ELSE s[i]]

\* Series.unique(): distinct values in order of first appearance.
RECURSIVE Unique(_)
Unique(s) ==
    IF s = <<>> THEN <<>>
    ELSE LET front == Unique(SubSeq(s, 1, Len(s) - 1))
             last == s[Len(s)]
         IN  IF \E i \in 1..Len(front) : front[i] = last
             THEN front ELSE Append(front, last)

Range(s) == {s[i] : i \in 1..Len(s)}

Column(rows, c) == [i \in 1..Len(rows) |-> rows[i][c]]

\* ------------------------------------------------------------------ strings
\* A string is a sequence of one-character strings.
UpperChars == <<"A", "B", "J", "L", "N", "O", "R", "Y">>
LowerChars == <<"a", "b", "j", "l", "n", "o", "r", "y">>

\* str.lower() / re.IGNORECASE folding of one character.
Lower(c) ==
    IF \E i \in 1..Len(UpperChars) : UpperChars[i] = c
    THEN LowerChars[CHOOSE i \in 1..Len(UpperChars) : UpperChars[i] = c]
    ELSE c

\* One pattern character against one text character under re.IGNORECASE:
\* "." matches any character, every other character of the alphabet used
\* here is a literal.
ReCharMatch(p, c) == p = "." \/ Lower(p) = Lower(c)

\* re.search(pat, text, re.IGNORECASE) is not None, for patterns made of
\* literals and ".".  Series.str.contains(pat, case=False) compiles pat as a
\* regular expression (regex=True is the default).
ReSearch(pat, text) ==
    \E s \in 0..(Len(text) - Len(pat)) :
        \A j \in 1..Len(pat) : ReCharMatch(pat[j], text[s + j])

StrContains(text, pat) == ReSearch(pat, text)

\* ------------------------------------------------------------ the data file
\* Rows a backing data.csv is drawn from (Name, Age, Salary, City, Category,
\* Department as written by generate_data.py; Date plays no part).
RowPool ==
    { [Name |-> <<"A", "n">>, Age |-> 30, Salary |-> Num(100, 1),
       City |-> <<"R", "o">>, Category |-> "Eng", Department |-> "HR"],
      [Name |-> <<"B", "o">>, Age |-> 40, Salary |-> Num(200, 1),
       City |-> <<"L", "A">>, Category |-> "Eng", Department |-> "IT"],
      [Name |-> <<"J", ".">>, Age |-> 50, Salary |-> Num(300, 1),
       City |-> <<"R", "o">>, Category |-> "Ops", Department |-> "IT"],
      [Name |-> <<"A", "l">>, Age |-> 25, Salary |-> NaN,
       City |-> <<"N", "Y">>, Category |-> "Ops", Department |-> "HR"],
      [Name |-> <<"J", "o">>, Age |-> 35, Salary |-> Str,
       City |-> <<"L", "A">>, Category |-> "Eng", Department |-> "HR"] }

\* Rows the session specification draws its files from.
SessionRowPool == {r \in RowPool : r.Salary.k # "str" /\ r.Department = "HR"}

AllColumns == {"Name", "Age", "Salary", "City", "Category", "Department"}

\* Lexical order of the Category values (groupby sorts its keys).
CategoryRank(c) == IF c = "Eng" THEN 1 ELSE 2

SeqsUpTo(S, n) == UNION {[1..m -> S] : m \in 1..n}

NoFile == [exists |-> FALSE, columns |-> {}, rows |-> <<>>]

\* data.csv: absent, or a header and at least one row.  A file either has
\* every column or lacks one of the three the script's KeyError message names.
Files(pool, n) ==
    {NoFile} \cup
    { [exists |-> TRUE, columns |-> AllColumns \ missing, rows |-> rows] :
        missing \in {{}, {"Salary"}, {"Category"}, {"Department"}},
        rows \in SeqsUpTo(pool, n) }

\* The files of the session specification: absent, or with every column.
SessionFiles ==
    {f \in Files(SessionRowPool, MaxSessionRows) : f.exists => f.columns = AllColumns}

\* ---------------------------------------------------------------- DataFrame
\* A DataFrame is its column set and its rows; each row carries its index
\* label, which boolean indexing keeps.
NoFrame == [columns |-> {}, rows |-> <<>>]

\* pd.read_csv: rows in file order under a RangeIndex 0..n-1.
ReadCsv(f) ==
    [columns |-> f.columns,
     rows |-> [i \in 1..Len(f.rows) |->
                 [idx |-> i - 1, Name |-> f.rows[i].Name, Age |-> f.rows[i].Age,
                  Salary |-> f.rows[i].Salary, City |-> f.rows[i].City,
                  Category |-> f.rows[i].Category,
                  Department |-> f.rows[i].Department]]]

WithSalary(frame, s) ==
    [frame EXCEPT !.rows = [i \in 1..Len(frame.rows) |->
                              [frame.rows[i] EXCEPT !.Salary = s[i]]]]

Salaries(frame) == Column(frame.rows, "Salary")

\* dtype of the Salary column is object when a cell is not numeric.
SalaryIsObject(frame) == \E i \in 1..Len(frame.rows) : frame.rows[i].Salary.k = "str"

\* df['Salary'].isnull().any()
SalaryHasNull(frame) == \E i \in 1..Len(frame.rows) : frame.rows[i].Salary.k = "nan"

\* df['Salary'] = df['Salary'].fillna(df['Salary'].mean())
FillSalary(frame) ==
    WithSalary(frame, FillNa(Salaries(frame), SeriesMean(Salaries(frame))))

\* ------------------------------------------------------------------- state
VARIABLES
    file,            \* data.csv on disk
    cache,           \* st.cache_data's entry for load_data()
    reads,           \* number of pd.read_csv calls so far
    dark_mode,       \* st.session_state.dark_mode
    edits,           \* st.data_editor's widget state: index labels edited
    pc,              \* position of the script: idle between passes
    status,          \* how the last/current pass stands
    out,             \* elements emitted by the current pass, in order
    df,              \* the frame load_data() returned to this pass
    total_employees,
    average_salary,
    crit,            \* values the sidebar widgets returned
    filtered_df,
    chart_title_suffix,
    metric_average,  \* text of st.metric("Average Salary", ...)
    avg_salary_per_category,
    fig,
    data_editor,     \* frame st.data_editor returned
    results          \* n of st.write("Number of results: n"); -1 before

vars == <<file, cache, reads, dark_mode, edits, pc, status, out, df,
          total_employees, average_salary, crit, filtered_df,
          chart_title_suffix, metric_average, avg_salary_per_category, fig,
          data_editor, results>>

session == <<file, cache, reads, dark_mode, edits>>

NoCache == [set |-> FALSE, df |-> NoFrame, warned |-> FALSE]
NoCrit == [selected_categories |-> {}, selected_departments |-> {},
           salary_range |-> <<NaN, NaN>>, search_term |-> <<>>]
NoFig == [kind |-> "", title |-> <<>>, rows |-> <<>>, bars |-> <<>>]
NoText == [k |-> "none", cents |-> 0]

\* Everything a pass computes, as it is before the pass has computed it.
LocalsCleared ==
    /\ df' = NoFrame
    /\ total_employees' = 0
    /\ average_salary' = NaN
    /\ crit' = NoCrit
    /\ filtered_df' = NoFrame
    /\ chart_title_suffix' = <<>>
    /\ metric_average' = NoText
    /\ avg_salary_per_category' = <<>>
    /\ fig' = NoFig
    /\ data_editor' = NoFrame
    /\ results' = -1

InitLocals ==
    /\ pc = "idle" /\ status = "none" /\ out = <<>>
    /\ df = NoFrame /\ total_employees = 0 /\ average_salary = NaN
    /\ crit = NoCrit /\ filtered_df = NoFrame /\ chart_title_suffix = <<>>
    /\ metric_average = NoText /\ avg_salary_per_category = <<>>
    /\ fig = NoFig /\ data_editor = NoFrame /\ results = -1
    /\ cache = NoCache /\ reads = 0 /\ dark_mode = FALSE /\ edits = {}

Init == file \in Files(RowPool, MaxRows) /\ InitLocals

InitSession == file \in SessionFiles /\ InitLocals

\* ----------------------------------------------------- lines 254-263: except
\* The element the try block's handlers emit for an exception, and how the
\* pass then stands.  An exception no handler names leaves the script and
\* Streamlit shows it.
Handled(exc) == exc \in {"FileNotFoundError", "KeyError", "ValueError"}

ErrorElement(exc) ==
    CASE exc = "FileNotFoundError" -> "st.error:data.csv not found"
      [] exc = "KeyError" -> "st.error:column not found"
      [] exc = "ValueError" -> "st.error:non-numeric Salary"
      [] OTHER -> "st.exception"

Raise(emitted, exc) ==
    /\ out' = Append(emitted, ErrorElement(exc))
    /\ status' = IF Handled(exc) THEN "error" ELSE "uncaught"
    /\ pc' = "idle"

\* What Series.mean() raises on an object column of strings depends on the
\* pandas build.
MeanOfObjectRaises == {"TypeError", "ValueError"}

\* ------------------------------------------------------ lines 8-83: preamble
StyleElement(dark) == IF dark THEN "st.markdown:style dark" ELSE "st.markdown:style light"

\* Lines 8-83, which every run of the script executes before the try block.
Preamble(dark) ==
    /\ pc' = "load"
    /\ status' = "running"
    /\ out' = <<"st.button:Toggle Dark Mode", StyleElement(dark), "st.markdown:title">>
    /\ LocalsCleared

\* Any interaction that only re-runs the script (a widget of the page was
\* changed; the values the widgets return are chosen where they are read).
Rerun ==
    /\ pc = "idle"
    /\ Preamble(dark_mode)
    /\ UNCHANGED session

\* Lines 14-17: the button's on_click callback, then the re-run.
ToggleDarkMode ==
    /\ pc = "idle"
    /\ dark_mode' = ~dark_mode
    /\ Preamble(~dark_mode)
    /\ UNCHANGED <<file, cache, reads, edits>>

\* Line 240: the user edits a cell of the table shown; the edit is kept in the
\* widget's state and the script re-runs.
EditTable ==
    /\ pc = "idle"
    /\ status = "ok"
    /\ \E i \in 1..Len(filtered_df.rows) : edits' = {filtered_df.rows[i].idx}
    /\ Preamble(dark_mode)
    /\ UNCHANGED <<file, cache, reads, dark_mode>>

\* The environment replaces data.csv on disk.
ReplaceFile ==
    /\ pc = "idle"
    /\ file' \in SessionFiles \ {file}
    /\ UNCHANGED <<cache, reads, dark_mode, edits, pc, status, out, df,
                   total_employees, average_salary, crit, filtered_df,
                   chart_title_suffix, metric_average, avg_salary_per_category,
                   fig, data_editor, results>>

\* ----------------------------------------------------- lines 85-101: loading
SalaryWarning == "st.warning:Salary missing"

\* st.cache_data: a stored entry is returned without running the function.
CacheHitNever == FALSE
CacheHit == cache.set

\* load_data() body, lines 87-94, on a cache miss: the exception it raises
\* ("" for none), the frame it returns and whether it warned.
LoadDataBody(f) ==
    LET frame == ReadCsv(f) IN
    IF ~f.exists
    THEN {[exc |-> "FileNotFoundError", frame |-> NoFrame, warned |-> FALSE]}
    ELSE IF "Salary" \notin f.columns
    THEN {[exc |-> "KeyError", frame |-> NoFrame, warned |-> FALSE]}
    ELSE IF ~SalaryHasNull(frame)
    THEN {[exc |-> "", frame |-> frame, warned |-> FALSE]}
    ELSE IF SalaryIsObject(frame)
    THEN {[exc |-> e, frame |-> NoFrame, warned |-> TRUE] : e \in MeanOfObjectRaises}
    ELSE {[exc |-> "", frame |-> FillSalary(frame), warned |-> TRUE]}

\* Lines 100-101 once load_data() has returned `frame`.
SummaryMetrics(emitted, frame) ==
    \/ /\ SalaryIsObject(frame)
       /\ \E e \in MeanOfObjectRaises : Raise(emitted, e)
       /\ df' = frame
       /\ UNCHANGED <<total_employees, average_salary>>
    \/ /\ ~SalaryIsObject(frame)
       /\ df' = frame
       /\ total_employees' = Len(frame.rows)
       /\ average_salary' = SeriesMean(Salaries(frame))
       /\ out' = emitted
       /\ pc' = "sidebar"
       /\ UNCHANGED status

LoadData ==
    /\ pc = "load"
    /\ UNCHANGED <<file, dark_mode, edits, crit, filtered_df, chart_title_suffix,
                   metric_average, avg_salary_per_category, fig, data_editor,
                   results>>
    /\ \/ /\ CacheHit
          /\ UNCHANGED <<cache, reads>>
          /\ SummaryMetrics(IF cache.warned THEN Append(out, SalaryWarning) ELSE out,
                            cache.df)
       \/ /\ ~CacheHit
          /\ reads < MaxReads
          /\ reads' = reads + 1
          /\ \E r \in LoadDataBody(file) :
               LET emitted == IF r.warned THEN Append(out, SalaryWarning) ELSE out IN
               \/ /\ r.exc # ""
                  /\ Raise(emitted, r.exc)
                  /\ UNCHANGED <<cache, df, total_employees, average_salary>>
               \/ /\ r.exc = ""
                  /\ cache' = [set |-> TRUE, df |-> r.frame, warned |-> r.warned]
                  /\ SummaryMetrics(emitted, r.frame)

\* ---------------------------------------------------- lines 103-131: sidebar
\* Positions of the salary slider the checks enumerate besides its two ends.
SliderStops == {Num(150, 1), Num(200, 1)}

\* st.slider(min_value, max_value, value=(min, max)): a pair lo <= hi inside
\* the bounds.  With NaN bounds (no numeric Salary at all) the widget hands
\* back its default.
SliderValues(lo, hi) ==
    IF ~IsNum(lo) THEN {<<lo, hi>>}
    ELSE LET stops == {lo, hi} \cup {v \in SliderStops : Le(lo, v) /\ Le(v, hi)}
         IN  {p \in stops \X stops : Le(p[1], p[2])}

\* Texts typed into the search box.
SearchTerms == {<<>>, <<"a">>, <<"a", ".">>}

\* Whether st.slider accepts min_value = max_value or raises
\* StreamlitAPIException depends on the Streamlit build.
SliderMayRaise(lo, hi) == IsNum(lo) /\ lo = hi

\* The values the four widgets return before any interaction.
DefaultCrit(frame) ==
    [selected_categories |-> Range(Unique(Column(frame.rows, "Category"))),
     selected_departments |-> Range(Unique(Column(frame.rows, "Department"))),
     salary_range |-> <<SeriesMin(Salaries(frame)), SeriesMax(Salaries(frame))>>,
     search_term |-> <<>>]

Sidebar ==
    /\ pc = "sidebar"
    /\ UNCHANGED <<file, cache, reads, dark_mode, edits, df, total_employees,
                   average_salary, filtered_df, chart_title_suffix,
                   metric_average, avg_salary_per_category, fig, data_editor,
                   results>>
    /\ LET header == Append(out, "st.header:Filter Options")
           withCat == Append(header, "st.multiselect:Category")
           withDept == Append(withCat, "st.multiselect:Department")
           dflt == DefaultCrit(df)
       IN  \/ /\ "Category" \notin df.columns
              /\ Raise(header, "KeyError")
              /\ UNCHANGED crit
           \/ /\ "Category" \in df.columns
              /\ "Department" \notin df.columns
              /\ Raise(withCat, "KeyError")
              /\ UNCHANGED crit
           \/ /\ "Category" \in df.columns
              /\ "Department" \in df.columns
              /\ SliderMayRaise(dflt.salary_range[1], dflt.salary_range[2])
              /\ Raise(withDept, "StreamlitAPIException")
              /\ UNCHANGED crit
           \/ /\ "Category" \in df.columns
              /\ "Department" \in df.columns
              /\ \E cats \in SUBSET dflt.selected_categories,
                    depts \in SUBSET dflt.selected_departments,
                    range \in SliderValues(dflt.salary_range[1], dflt.salary_range[2]),
                    term \in SearchTerms :
                   crit' = [selected_categories |-> cats,
                            selected_departments |-> depts,
                            salary_range |-> range,
                            search_term |-> term]
              /\ out' = withDept \o <<"st.slider:Salary Range", "st.text_input:Search">>
              /\ pc' = "filter"
              /\ UNCHANGED status

\* -------------------------------------------- lines 133-159: filter, metrics
\* frame[mask]: the rows whose mask entry is True, in order, index kept.
BooleanIndex(frame, mask) ==
    LET keep == SelectSeq([i \in 1..Len(frame.rows) |-> i], LAMBDA i : mask[i])
    IN  [frame EXCEPT !.rows = [j \in 1..Len(keep) |-> frame.rows[keep[j]]]]

\* Lines 135-138 with an exclusive upper bound.
FilterMaskExclusive(frame, c) ==
    [i \in 1..Len(frame.rows) |->
        /\ frame.rows[i].Category \in c.selected_categories
        /\ frame.rows[i].Department \in c.selected_departments
        /\ Ge(frame.rows[i].Salary, c.salary_range[1])
        /\ Lt(frame.rows[i].Salary, c.salary_range[2])]

\* Lines 135-138 with an empty selection read as "no restriction".
FilterMaskEmptyIsAll(frame, c) ==
    [i \in 1..Len(frame.rows) |->
        /\ \/ c.selected_categories = {}
           \/ frame.rows[i].Category \in c.selected_categories
        /\ \/ c.selected_departments = {}
           \/ frame.rows[i].Department \in c.selected_departments
        /\ Ge(frame.rows[i].Salary, c.salary_range[1])
        /\ Le(frame.rows[i].Salary, c.salary_range[2])]

\* Lines 135-138: isin & isin & >= & <=.
FilterMask(frame, c) ==
    [i \in 1..Len(frame.rows) |->
        /\ frame.rows[i].Category \in c.selected_categories
        /\ frame.rows[i].Department \in c.selected_departments
        /\ Ge(frame.rows[i].Salary, c.salary_range[1])
        /\ Le(frame.rows[i].Salary, c.salary_range[2])]

\* Lines 144-145: Name contains | City contains.
SearchMask(frame, term) ==
    [i \in 1..Len(frame.rows) |->
        \/ StrContains(frame.rows[i].Name, term)
        \/ StrContains(frame.rows[i].City, term)]

\* Lines 134-146.
FilteredFrame(frame, c) ==
    LET step1 == BooleanIndex(frame, FilterMask(frame, c))
    IN  IF c.search_term # <<>>
        THEN BooleanIndex(step1, SearchMask(step1, c.search_term))
        ELSE step1

Marker == " (Filtered)"

\* Line 149 with <= for <.
ChartTitleSuffixLe(fdf, frame) ==
    IF Len(fdf.rows) <= Len(frame.rows) THEN <<Marker>> ELSE <<>>

\* Line 149.
ChartTitleSuffix(fdf, frame) ==
    IF Len(fdf.rows) < Len(frame.rows) THEN <<Marker>> ELSE <<>>

\* f"${x:,.2f}": the value in cents, rounded half to even; "nan" for NaN.
Fmt2f(x) ==
    IF ~IsNum(x) THEN [k |-> "nan", cents |-> 0]
    ELSE LET q == (100 * x.n) \div x.d
             r == (100 * x.n) % x.d
         IN  [k |-> "num",
              cents |-> IF 2 * r < x.d THEN q
                        ELSE IF 2 * r > x.d THEN q + 1
                        ELSE IF q % 2 = 0 THEN q ELSE q + 1]

\* The mean shown were it taken over the rows on display.
HeadlineOfFiltered(avg, fdf) == Fmt2f(SeriesMean(Salaries(fdf)))

\* Line 156: the text of the Average Salary metric, from line 101's value.
Headline(avg, fdf) == Fmt2f(avg)

RECURSIVE SortedCategories(_)
SortedCategories(S) ==
    IF S = {} THEN <<>>
    ELSE LET c == CHOOSE x \in S : \A y \in S : CategoryRank(x) <= CategoryRank(y)
         IN  <<c>> \o SortedCategories(S \ {c})

GroupSalaries(fdf, c) ==
    Column(SelectSeq(fdf.rows, LAMBDA r : r.Category = c), "Salary")

\* Line 159 with .sum() for .mean().
GroupbySum(fdf) ==
    LET keys == SortedCategories(Range(Column(fdf.rows, "Category")))
    IN  [i \in 1..Len(keys) |->
            [Category |-> keys[i],
             Salary |-> SumNum(SelectSeq(GroupSalaries(fdf, keys[i]), IsNum))]]

\* Line 159: groupby("Category")["Salary"].mean().reset_index(): one row per
\* Category present, keys sorted.
GroupbyMean(fdf) ==
    LET keys == SortedCategories(Range(Column(fdf.rows, "Category")))
    IN  [i \in 1..Len(keys) |->
            [Category |-> keys[i],
             Salary |-> SeriesMean(GroupSalaries(fdf, keys[i]))]]

FilterAndMetrics ==
    /\ pc = "filter"
    /\ LET fdf == FilteredFrame(df, crit) IN
       /\ filtered_df' = fdf
       /\ chart_title_suffix' = ChartTitleSuffix(fdf, df)
       /\ metric_average' = Headline(average_salary, fdf)
       /\ avg_salary_per_category' = GroupbyMean(fdf)
    /\ out' = out \o <<"st.metric:Total Employees", "st.metric:Average Salary">>
    /\ pc' = "chart"
    /\ UNCHANGED <<file, cache, reads, dark_mode, edits, status, df,
                   total_employees, average_salary, crit, fig, data_editor,
                   results>>

\* ------------------------------------------------------ lines 161-216: chart
ChartTypes == {"Bar Chart", "Pie Chart", "Scatter Chart", "Histogram", "Box Plot"}

ChartBaseTitle(chart_type) ==
    CASE chart_type \in {"Bar Chart", "Pie Chart"} -> "Average Salary per Employee Category"
      [] chart_type = "Scatter Chart" -> "Salary vs Category (Size: Age)"
      [] chart_type = "Histogram" -> "Salary Distribution"
      [] chart_type = "Box Plot" -> "Salary Distribution by Category"

\* Lines 165-213: the figure each chart type builds.
Figure(chart_type, avg, fdf, suffix) ==
    [kind |-> chart_type,
     title |-> <<ChartBaseTitle(chart_type)>> \o suffix,
     bars |-> IF chart_type \in {"Bar Chart", "Pie Chart"} THEN avg ELSE <<>>,
     rows |-> IF chart_type \in {"Bar Chart", "Pie Chart"} THEN <<>> ELSE fdf.rows]

Chart ==
    /\ pc = "chart"
    /\ \E chart_type \in ChartTypes :
         fig' = Figure(chart_type, avg_salary_per_category, filtered_df,
                       chart_title_suffix)
    /\ out' = out \o <<"st.selectbox:Chart Type", "st.plotly_chart:chart", "st.caption">>
    /\ pc' = "details"
    /\ UNCHANGED <<file, cache, reads, dark_mode, edits, status, df,
                   total_employees, average_salary, crit, filtered_df,
                   chart_title_suffix, metric_average, avg_salary_per_category,
                   data_editor, results>>

\* --------------------------------- lines 218-252: correlation, table, export
\* select_dtypes(include=np.number): Age, and Salary (float64 or int64 here).
NumericColumns(fdf) == SelectSeq(<<"Age", "Salary">>, LAMBDA c : c \in fdf.columns)

\* Lines 219-235.
CorrelationElements(numeric_columns, selected_columns) ==
    <<"st.subheader:Correlation Analysis">> \o
    (IF Len(numeric_columns) > 1
     THEN <<"st.multiselect:correlation columns">> \o
          (IF Len(selected_columns) >= 2
           THEN <<"st.plotly_chart:heatmap">>
           ELSE <<"st.warning:select two columns">>)
     ELSE <<"st.warning:no numeric columns">>)

EditedValue == Num(999, 1)

\* st.data_editor(frame): a copy of frame with the user's edits applied.
DataEditor(fdf, edited) ==
    [fdf EXCEPT !.rows = [i \in 1..Len(fdf.rows) |->
        IF fdf.rows[i].idx \in edited
        THEN [fdf.rows[i] EXCEPT !.Salary = EditedValue]
        ELSE fdf.rows[i]]]

Details ==
    /\ pc = "details"
    /\ \E selected_columns \in {<<"Age", "Salary">>, <<"Age">>} :
         out' = out \o CorrelationElements(NumericColumns(filtered_df), selected_columns)
                    \o <<"st.markdown:Employee Information", "st.data_editor",
                         "st.write:Number of results", "st.download_button">>
    /\ data_editor' = DataEditor(filtered_df, edits)
    /\ results' = Len(filtered_df.rows)
    /\ status' = "ok"
    /\ pc' = "idle"
    /\ UNCHANGED <<file, cache, reads, dark_mode, edits, df, total_employees,
                   average_salary, crit, filtered_df, chart_title_suffix,
                   metric_average, avg_salary_per_category, fig>>

\* ------------------------------------------------------------ specifications
Pass == LoadData \/ Sidebar \/ FilterAndMetrics \/ Chart \/ Details

\* Render passes over one backing file.
Next == Rerun \/ Pass

Spec == Init /\ [][Next]_vars

\* A session: passes interleaved with dark-mode toggles, table edits and
\* changes of the file on disk.
NextSession == Rerun \/ ToggleDarkMode \/ EditTable \/ ReplaceFile \/ Pass

SpecSession == InitSession /\ [][NextSession]_vars

\* =================================================================== claims
\* filtered_df and what lines 133-159 derive from it have been computed.
Filtered == pc \in {"chart", "details"} \/ (pc = "idle" /\ status = "ok")

\* The figure has been built (line 215 reached).
Charted == pc = "details" \/ (pc = "idle" /\ status = "ok")

Completed == pc = "idle" /\ status = "ok"

\* Step 1 of the Filter Engine for one row, as the specification words it.
Keeps(r, c) ==
    /\ r.Category \in c.selected_categories
    /\ r.Department \in c.selected_departments
    /\ Le(c.salary_range[1], r.Salary)
    /\ Le(r.Salary, c.salary_range[2])

\* term is a case-insensitive substring of text (no character is special).
SubstringCI(text, term) ==
    \E s \in 0..(Len(text) - Len(term)) :
        \A j \in 1..Len(term) : Lower(term[j]) = Lower(text[s + j])

\* s is an order-preserving selection of t's elements.
IsSubsequence(s, t) ==
    /\ Range(s) \subseteq Range(t)
    /\ \A i, j \in 1..Len(s) : i < j =>
         \E a, b \in 1..Len(t) : a < b /\ t[a] = s[i] /\ t[b] = s[j]

\* C1: with an empty search term the filtered view holds exactly the rows of
\* the Table whose Category and Department are selected and whose Salary lies
\* in the closed salary range: every row of the view satisfies the three
\* predicates and every row of the Table left out violates one of them.
C1_FilterExact ==
    (Filtered /\ crit.search_term = <<>>) =>
        /\ IsSubsequence(filtered_df.rows, df.rows)
        /\ \A i \in 1..Len(filtered_df.rows) : Keeps(filtered_df.rows[i], crit)
        /\ \A i \in 1..Len(df.rows) :
             df.rows[i] \notin Range(filtered_df.rows) => ~Keeps(df.rows[i], crit)

\* A view that keeps a row sitting on the upper bound of the range and drops
\* another row for its salary alone.
C1_Witness ==
    /\ Filtered /\ crit.search_term = <<>>
    /\ \E i \in 1..Len(filtered_df.rows) :
         filtered_df.rows[i].Salary = crit.salary_range[2]
    /\ \E i \in 1..Len(df.rows) :
         /\ df.rows[i] \notin Range(filtered_df.rows)
         /\ df.rows[i].Category \in crit.selected_categories
         /\ df.rows[i].Department \in crit.selected_departments

\* C2 as stated, for a view that is not empty: the headline Average Salary
\* metric is the mean of Salary over exactly the rows of the current filtered
\* view.
C2_HeadlineIsFilteredMean ==
    (Filtered /\ filtered_df.rows # <<>>) => metric_average = Fmt2f(SeriesMean(Salaries(filtered_df)))

\* C2 as amended: the headline Average Salary metric is the mean of Salary
\* over all rows of the loaded Table, whatever the criteria, shown to two
\* decimals.
C2_HeadlineIsTableMean ==
    Filtered =>
        LET present == SelectSeq(Salaries(df), IsNum)
            t == SumNum(present)
        IN  IF present = <<>> THEN metric_average.k = "nan"
            ELSE /\ metric_average.k = "num"
                 \* |cents/100 - mean| <= 1/200
                 /\ LET lhs == 2 * (metric_average.cents * t.d * Len(present) - 100 * t.n)
                        bound == t.d * Len(present)
                    IN  -bound <= lhs /\ lhs <= bound

\* A view the filter has narrowed to rows whose mean differs from the Table's.
C2_Witness ==
    /\ Filtered
    /\ Len(filtered_df.rows) > 0
    /\ Len(filtered_df.rows) < Len(df.rows)
    /\ metric_average.k = "num"
    /\ metric_average # Fmt2f(SeriesMean(Salaries(filtered_df)))

\* Elements of the dashboard body: filter controls, metrics, chart,
\* correlation heatmap, table, export button.
BodyElements ==
    {"st.multiselect:Category", "st.multiselect:Department",
     "st.slider:Salary Range", "st.text_input:Search",
     "st.metric:Total Employees", "st.metric:Average Salary",
     "st.selectbox:Chart Type", "st.plotly_chart:chart",
     "st.multiselect:correlation columns", "st.plotly_chart:heatmap",
     "st.data_editor", "st.download_button"}

ErrorElements ==
    {"st.error:data.csv not found", "st.error:column not found",
     "st.error:non-numeric Salary"}

\* C3: a pass that ends in one of the blocking errors has emitted a single
\* error message and nothing of the dashboard body.
C3_ErrorReplacesBody ==
    status = "error" =>
        /\ Range(out) \cap BodyElements = {}
        /\ Cardinality({i \in 1..Len(out) : out[i] \in ErrorElements}) = 1

\* C4: once load_data() has returned, no Salary is missing: a Salary missing
\* in the file is the mean of the Salary values present in the file, a
\* Salary present in the file is unchanged.
C4_NoMissingSalaryAfterLoad ==
    cache.set =>
        LET present == SelectSeq(Column(file.rows, "Salary"), IsNum)
            t == SumNum(present)
        IN  \A i \in 1..Len(cache.df.rows) :
              LET src == file.rows[i].Salary
                  got == cache.df.rows[i].Salary
              IN  /\ got.k # "nan"
                  /\ src.k # "nan" => got = src
                  /\ src.k = "nan" =>
                       /\ got.k = "num"
                       /\ got.n * t.d * Len(present) = t.n * got.d

\* C5: once load_data() has returned a Table, no later step reads data.csv or
\* changes the cached Table, and the frame every pass works on is that Table.
C5_Step ==
    /\ cache.set => (cache' = cache /\ reads' = reads)
    /\ df' # NoFrame => (cache'.set /\ df' = cache'.df)

C5_LoadedOnce == [][C5_Step]_vars

\* A completed pass, after a table edit and a dark-mode toggle, over the
\* Table first loaded although data.csv now holds other rows.
C5_Witness ==
    /\ Completed
    /\ cache.set /\ df = cache.df
    /\ file.exists /\ file.columns = AllColumns
    /\ ReadCsv(file) # cache.df
    /\ edits # {} /\ dark_mode
    /\ data_editor # filtered_df

\* C6: with the default criteria the filtered view is the loaded Table.
C6_DefaultsKeepTable ==
    (Filtered /\ crit = DefaultCrit(df)) => filtered_df = df

\* C7: with a search term the filtered view is exactly the rows of the
\* no-term result whose Name or City contains the term as a case-insensitive
\* substring, in the same order.
C7_SearchIsSubstring ==
    (Filtered /\ crit.search_term # <<>>) =>
        LET noTerm == BooleanIndex(df, FilterMask(df, crit))
        IN  filtered_df.rows =
              SelectSeq(noTerm.rows,
                        LAMBDA r : \/ SubstringCI(r.Name, crit.search_term)
                                   \/ SubstringCI(r.City, crit.search_term))

\* C8: the per-category averages hold one entry for each Category occurring
\* in the filtered view, none for any other Category, and each entry's value
\* is the mean of Salary over the filtered rows of its Category.
C8_PerCategoryMeans ==
    Filtered =>
        LET avg == avg_salary_per_category
            cats == {filtered_df.rows[i].Category : i \in 1..Len(filtered_df.rows)}
        IN  /\ {avg[i].Category : i \in 1..Len(avg)} = cats
            /\ Len(avg) = Cardinality(cats)
            /\ \A i \in 1..Len(avg) :
                 LET group == SelectSeq(filtered_df.rows,
                                        LAMBDA r : r.Category = avg[i].Category)
                     t == SumNum(Column(group, "Salary"))
                 IN  /\ avg[i].Salary.k = "num"
                     /\ avg[i].Salary.n * t.d * Len(group) = t.n * avg[i].Salary.d

\* The specification's scenario: Eng/100, Eng/200, Ops/300 filtered to Eng
\* gives exactly {Eng: 150}.
C8_Witness ==
    /\ Filtered
    /\ Len(df.rows) = 3
    /\ \E i \in 1..3 : df.rows[i].Category = "Ops" /\ df.rows[i].Salary = Num(300, 1)
    /\ Len(filtered_df.rows) = 2
    /\ {<<filtered_df.rows[i].Category, filtered_df.rows[i].Salary>> : i \in 1..2}
         = {<<"Eng", Num(100, 1)>>, <<"Eng", Num(200, 1)>>}
    /\ avg_salary_per_category = <<[Category |-> "Eng", Salary |-> Num(150, 1)]>>

\* The criteria select no row: an empty Category or Department selection, a
\* reversed range, or a range and search term no row meets.
SelectsNothing ==
    \/ crit.selected_categories = {}
    \/ crit.selected_departments = {}
    \/ Lt(crit.salary_range[2], crit.salary_range[1])
    \/ \A i \in 1..Len(df.rows) : ~Keeps(df.rows[i], crit)
    \/ filtered_df.rows = <<>>

C10_TitleMarker ==
    Charted =>
        /\ fig.kind \in ChartTypes
        /\ fig.title[1] = ChartBaseTitle(fig.kind)
        /\ (Marker \in Range(fig.title)) <=> (Len(filtered_df.rows) < Len(df.rows))

\* A scatter chart of a narrowed view, marked.
C10_Witness ==
    /\ Charted
    /\ fig.kind = "Scatter Chart"
    /\ Len(filtered_df.rows) < Len(df.rows)
    /\ fig.title = <<"Salary vs Category (Size: Age)", Marker>>

====
